---- MODULE Spec2Model ----
(***************************************************************************)
(* The three CRUD controllers of api-arquivos (HistoricoFinanceiro,        *)
(* ArquivoAssociado, HistoricoAssociado) as one state machine.  The three  *)
(* classes are the same text up to the model class, the validator and the  *)
(* name of the foreign-key field, so every handler is one action with the  *)
(* entity as a parameter.                                                  *)
(*                                                                         *)
(* A handler that awaits the store twice (atualizar, ativar) is two steps, *)
(* one per store round trip: other requests may run between its            *)
(* findOrFail and its save.  Work that touches no shared state (the        *)
(* validation, the assignments, building the response) belongs to the step *)
(* of the store call next to it.                                           *)
(***************************************************************************)
EXTENDS Integers, FiniteSets, Sequences, TLC

\* Rows the store may hold, over all tables.
MaxRecords == 2

\* Requests that may be between their lookup and their save at one time.
MaxInFlight == 2

\* Requests the server accepts in one run.
MaxRequests == 4

Slots == 1..MaxInFlight

Entities == {"HistoricoFinanceiro", "ArquivoAssociado", "HistoricoAssociado"}

\* The foreign-key field each controller reads from the validated body.
FkField(e) ==
    CASE e = "HistoricoFinanceiro" -> "financeiroId"
      [] e = "ArquivoAssociado"    -> "associadoId"
      [] e = "HistoricoAssociado"  -> "historicoId"

\* JavaScript's undefined and null, as audit-field values.
Undefined == "undefined"
Null == "null"

\* auth.user?.nome: the user's display name, or undefined without a user.
Users == {"Ana", Undefined}

\* a ?? b
Nullish(a, b) == IF a = Undefined \/ a = Null THEN b ELSE a

\* params.id: the identifiers a request may name (one more than can exist).
Ids == 1..(MaxRecords + 1)

\* Request bodies: two that pass validation, one without the document.
NoBody == [empty |-> TRUE]
Bodies(e) ==
    { (FkField(e) :> 7) @@ [documento |-> "abc"],
      (FkField(e) :> 8) @@ [documento |-> "xyz"],
      (FkField(e) :> 7) @@ [semDocumento |-> TRUE] }

\* request.validate(Create...Validator): the body has the two fields.
ValidBody(e, body) == {FkField(e), "documento"} \subseteq DOMAIN body

\* What request.validate returns: exactly the two validated fields.
Validated(e, body) == [f \in {FkField(e), "documento"} |-> body[f]]

-----------------------------------------------------------------------------
\* The values a catch block may receive.
NoError == [name |-> "none", message |-> "", status |-> 0]
ValidationException ==
    [name |-> "E_VALIDATION_FAILURE", message |-> "Validation Exception", status |-> 422]
RowNotFound == [name |-> "E_ROW_NOT_FOUND", message |-> "Row not found", status |-> 404]
CustomErrorException(message, status) ==
    [name |-> "CustomErrorException", message |-> message, status |-> status]
SaveIsNotAFunction ==
    [name |-> "TypeError", message |-> "save is not a function", status |-> 0]
StoreFailure == [name |-> "StoreFailure", message |-> "store call failed", status |-> 0]

\* data of an envelope that carries no record, and of one that carries no list.
NoRow == [id |-> 0]
NoList == {}

\* No response sent yet.
NoResponse ==
    [code |-> 0, status |-> FALSE, message |-> "", error |-> NoError,
     data |-> NoRow, list |-> NoList]

VARIABLES
    table,      \* table[e]: the rows of entity e's table
    ctx,        \* ctx[s]: the request suspended between its two awaits, or Idle
    response,   \* the envelope of the last response sent, with its HTTP code
    chain,      \* history: per row, the run of toggles made one after another
    created,    \* history: per row, the record its create returned
    served      \* requests accepted so far

vars == <<table, ctx, response, chain, created, served>>

Idle == [op |-> "idle"]

Keys == Entities \X (1..MaxRecords)
NoChain == [n |-> 0, orig |-> FALSE, last |-> FALSE]
NotCreated == [data |-> NoRow, intact |-> FALSE]

\* Rows stored, over all tables.
Stored == Cardinality(UNION {{<<e, r.id>> : r \in table[e]} : e \in Entities})

-----------------------------------------------------------------------------
(* The store: Lucid's model API over one table per entity.                   *)

\* Model.create(fields): the row the insert stores.  The table gives it the
\* next identifier and the default of ativo; the audit fields hold what the
\* caller passed (createdBy) or nothing yet (updatedBy).
NewRow(e, fields) ==
    fields @@ [id |-> Cardinality(table[e]) + 1, ativo |-> TRUE, updatedBy |-> Undefined]

\* Model.findOrFail(id): the rows with that identifier (none: E_ROW_NOT_FOUND).
Find(e, id) == {r \in table[e] : r.id = id}

\* A model instance: its attributes and the row they were loaded from.
Instance(row) == [attrs |-> row, original |-> row, isModel |-> TRUE]

\* instance.save(): UPDATE of the attributes that differ from the loaded row.
Dirty(inst) == {f \in DOMAIN inst.attrs : inst.attrs[f] # inst.original[f]}

Saved(e, inst) ==
    { IF r.id = inst.original.id
      THEN [f \in DOMAIN r |-> IF f \in Dirty(inst) THEN inst.attrs[f] ELSE r[f]]
      ELSE r : r \in table[e] }

\* Model.query() and Model.query().where('ativo', true)
QueryAll(e) == table[e]
QueryAtivos(e) == {r \in table[e] : r.ativo = TRUE}

-----------------------------------------------------------------------------
(* Responses.                                                                *)

\* response.status(code).send({status, message, data}) of the try block.
Success(code, message, data, list) ==
    [code |-> code, status |-> TRUE, message |-> message, error |-> NoError,
     data |-> data, list |-> list]

\* As Failure, sending the status the caught value carries when it has one.
FailureByStatus(error) ==
    [code |-> IF error.status # 0 THEN error.status ELSE 500, status |-> FALSE,
     message |-> error.message, error |-> error, data |-> NoRow, list |-> NoList]

\* The catch block of every handler: response.status(500).send({status: false,
\* message: error}).  message is the caught value; the model keeps its text in
\* message and the value itself in error.
Failure(error) ==
    [code |-> 500, status |-> FALSE, message |-> error.message, error |-> error,
     data |-> NoRow, list |-> NoList]

-----------------------------------------------------------------------------
Init ==
    /\ table = [e \in Entities |-> {}]
    /\ ctx = [s \in Slots |-> Idle]
    /\ response = NoResponse
    /\ chain = [k \in Keys |-> NoChain]
    /\ created = [k \in Keys |-> NotCreated]
    /\ served = 0

\* A request arrives: the router calls its handler.
Accept ==
    /\ served < MaxRequests
    /\ served' = served + 1

\* A handler that will suspend takes the first free slot.
Free(s) ==
    /\ ctx[s] = Idle
    /\ \A t \in Slots : t < s => ctx[t] # Idle

\* The record a create returned, kept to compare later reads with.
Remember(e, data) ==
    created' = [k \in Keys |->
                  IF k = <<e, data.id>> THEN [data |-> data, intact |-> TRUE] ELSE created[k]]

\* An update or a toggle of the row has run.
Touch(e, id) ==
    created' = [k \in Keys |->
                  IF k = <<e, id>> THEN [created[k] EXCEPT !.intact = FALSE] ELSE created[k]]

\* As CadastrarFields, with the audit stamp of the update: ?? null.
CadastrarFieldsNullStamp(e, body, user) ==
    Validated(e, body) @@ [createdBy |-> Nullish(user, Null)]

\* createdBy: auth.user?.nome beside the validated fields.
CadastrarFields(e, body, user) ==
    Validated(e, body) @@ [createdBy |-> user]

\* cadastrar: validate, create, 201.
Cadastrar(e, body, user, fault) ==
    /\ Accept
    /\ IF ~ValidBody(e, body)
       THEN /\ response' = Failure(ValidationException)
            /\ UNCHANGED <<table, ctx, chain, created>>
       ELSE IF fault
       THEN /\ response' = Failure(StoreFailure)
            /\ UNCHANGED <<table, ctx, chain, created>>
       ELSE LET historico == NewRow(e, CadastrarFields(e, body, user)) IN
            /\ Stored < MaxRecords
            /\ table' = [table EXCEPT ![e] = @ \cup {historico}]
            /\ response' = Success(201, "Registro cadastrado com sucesso!", historico, NoList)
            /\ Remember(e, historico)
            /\ UNCHANGED <<ctx, chain>>

\* The other requests suspended on the row a mutating request names.
Others(s, e, id) ==
    {t \in Slots \ {s} : ctx[t].op # "idle" /\ ctx[t].e = e /\ ctx[t].id = id}

\* The handler suspends at its second await holding the instance it found.
Suspend(s, req, row) ==
    ctx' = [t \in Slots |->
              IF t = s
              THEN req @@ [historico |-> Instance(row),
                           iso |-> Others(s, req.e, req.id) = {}]
              ELSE IF t \in Others(s, req.e, req.id)
              THEN [ctx[t] EXCEPT !.iso = FALSE]
              ELSE ctx[t]]

Resume(s) == ctx' = [ctx EXCEPT ![s] = Idle]

\* The run of toggles of a row ends when another kind of request touches it.
Break(e, id) ==
    chain' = [k \in Keys |-> IF k = <<e, id>> THEN NoChain ELSE chain[k]]

\* A toggle made with no other request on the row joins the run: orig is the
\* value of ativo before the toggle that preceded it, last the value before it.
Extend(e, id, before) ==
    chain' = [k \in Keys |->
                IF k = <<e, id>>
                THEN IF chain[k].n >= 1
                     THEN [n |-> 2, orig |-> chain[k].last, last |-> before]
                     ELSE [n |-> 1, orig |-> FALSE, last |-> before]
                ELSE chain[k]]

\* atualizar, up to its first await: findOrFail(params.id).
AtualizarFind(s, e, id, body, user, fault) ==
    /\ Accept
    /\ Free(s)
    /\ IF fault
       THEN /\ response' = Failure(StoreFailure)
            /\ UNCHANGED <<table, ctx, chain, created>>
       ELSE IF Find(e, id) = {}
       THEN /\ response' = Failure(RowNotFound)
            /\ UNCHANGED <<table, ctx, chain, created>>
       ELSE /\ \E row \in Find(e, id) :
                   Suspend(s, [op |-> "atualizar", e |-> e, id |-> id, body |-> body,
                               user |-> user], row)
            /\ Break(e, id)
            /\ UNCHANGED <<table, response, created>>

\* historico = {...historico, fk, documento, updatedBy}: an object literal.
\* The spread copies the instance's own properties; save() lives on the model's
\* prototype, so the new object is no model instance.
AtualizarObject(e, historico, fields, user) ==
    [attrs |-> fields @@ [updatedBy |-> Nullish(user, Null)] @@ historico.attrs,
     original |-> historico.original,
     isModel |-> FALSE]

\* As AtualizarSave, stamping and saving the record before it validates the body.
AtualizarSaveBeforeValidate(s, fault) ==
    LET r == ctx[s]
        stamped == [r.historico EXCEPT !.attrs.updatedBy = Nullish(r.user, Null)]
    IN
    /\ ctx[s].op = "atualizar"
    /\ Resume(s)
    /\ Touch(r.e, r.id)
    /\ UNCHANGED served
    /\ Break(r.e, r.id)
    /\ IF ~ValidBody(r.e, r.body)
       THEN /\ response' = Failure(ValidationException)
            /\ table' = [table EXCEPT ![r.e] = Saved(r.e, stamped)]
       ELSE /\ response' = Failure(SaveIsNotAFunction)
            /\ UNCHANGED table

\* atualizar, after findOrFail: validate, rebuild the object, save, 200.
AtualizarSave(s, fault) ==
    LET r == ctx[s]
    IN
    /\ ctx[s].op = "atualizar"
    /\ Resume(s)
    /\ Touch(r.e, r.id)
    /\ UNCHANGED served
    /\ Break(r.e, r.id)
    /\ IF ~ValidBody(r.e, r.body)
       THEN /\ response' = Failure(ValidationException)
            /\ UNCHANGED table
       ELSE LET historico ==
                    AtualizarObject(r.e, r.historico, Validated(r.e, r.body), r.user)
            IN
            IF ~historico.isModel
            THEN /\ response' = Failure(SaveIsNotAFunction)
                 /\ UNCHANGED table
            ELSE IF fault
            THEN /\ response' = Failure(StoreFailure)
                 /\ UNCHANGED table
            ELSE /\ table' = [table EXCEPT ![r.e] = Saved(r.e, historico)]
                 /\ response' = Success(200, "Registro atualizado com sucesso",
                                         historico.attrs, NoList)

\* ativar, up to its first await: findOrFail(params.id).
AtivarFind(s, e, id, user, fault) ==
    /\ Accept
    /\ Free(s)
    /\ IF fault
       THEN /\ response' = Failure(StoreFailure)
            /\ UNCHANGED <<table, ctx, chain, created>>
       ELSE IF Find(e, id) = {}
       THEN /\ response' = Failure(RowNotFound)
            /\ UNCHANGED <<table, ctx, chain, created>>
       ELSE /\ \E row \in Find(e, id) :
                   Suspend(s, [op |-> "ativar", e |-> e, id |-> id, body |-> NoBody,
                               user |-> user], row)
            /\ UNCHANGED <<table, response, chain, created>>

\* As AtivarAssign, stamping the creation field.
AtivarAssignCreatedBy(historico, user) ==
    [historico EXCEPT !.attrs.ativo = ~@, !.attrs.createdBy = Nullish(user, Null)]

\* As AtivarAssign, inactivating only.
AtivarAssignInativa(historico, user) ==
    [historico EXCEPT !.attrs.ativo = FALSE, !.attrs.updatedBy = Nullish(user, Null)]

\* historico.ativo = !historico.ativo; historico.updatedBy = auth.user?.nome ?? null
AtivarAssign(historico, user) ==
    [historico EXCEPT !.attrs.ativo = ~@, !.attrs.updatedBy = Nullish(user, Null)]

\* As AtivarMessage, with the two words the other way round.
AtivarMessageSwapped(historico) ==
    IF historico.attrs.ativo THEN "Registro inativado com sucesso"
                             ELSE "Registro ativado com sucesso"

\* `Registro ${historico.ativo ? 'ativado' : 'inativado'} com sucesso`
AtivarMessage(historico) ==
    IF historico.attrs.ativo THEN "Registro ativado com sucesso"
                             ELSE "Registro inativado com sucesso"

\* As AtivarSave, deleting the record it inactivates.
AtivarSaveDelete(s, fault) ==
    LET r == ctx[s]
        historico == AtivarAssign(r.historico, r.user)
    IN
    /\ ctx[s].op = "ativar"
    /\ Resume(s)
    /\ Touch(r.e, r.id)
    /\ UNCHANGED served
    /\ IF fault
       THEN /\ response' = Failure(StoreFailure)
            /\ Break(r.e, r.id)
            /\ UNCHANGED table
       ELSE /\ table' = [table EXCEPT ![r.e] =
                           IF historico.attrs.ativo THEN Saved(r.e, historico)
                           ELSE {row \in @ : row.id # r.id}]
            /\ response' = Success(200, AtivarMessage(historico), historico.attrs, NoList)
            /\ IF r.iso THEN Extend(r.e, r.id, r.historico.original.ativo)
                        ELSE Break(r.e, r.id)

\* ativar, after findOrFail: flip and stamp the instance, save, 200.
AtivarSave(s, fault) ==
    LET r == ctx[s]
        historico == AtivarAssign(r.historico, r.user)
    IN
    /\ ctx[s].op = "ativar"
    /\ Resume(s)
    /\ Touch(r.e, r.id)
    /\ UNCHANGED served
    /\ IF fault
       THEN /\ response' = Failure(StoreFailure)
            /\ Break(r.e, r.id)
            /\ UNCHANGED table
       ELSE /\ table' = [table EXCEPT ![r.e] = Saved(r.e, historico)]
            /\ response' = Success(200, AtivarMessage(historico), historico.attrs, NoList)
            /\ IF r.iso THEN Extend(r.e, r.id, r.historico.original.ativo)
                        ELSE Break(r.e, r.id)

\* buscarTodos: query(), the empty-result exception, 200.
BuscarTodos(e, fault) ==
    LET historicos == QueryAll(e)
    IN
    /\ Accept
    /\ response' =
         IF fault THEN Failure(StoreFailure)
         ELSE IF Cardinality(historicos) <= 0
         THEN Failure(CustomErrorException("Nenhum registro encontrado", 404))
         ELSE Success(200, "Registros retornados com sucesso", NoRow, historicos)
    /\ UNCHANGED <<table, ctx, chain, created>>

\* As BuscarAtivos, without the where clause.
BuscarAtivosSemFiltro(e, fault) ==
    LET historicos == QueryAll(e)
    IN
    /\ Accept
    /\ response' =
         IF fault THEN Failure(StoreFailure)
         ELSE IF Cardinality(historicos) <= 0
         THEN Failure(CustomErrorException("Nenhum registro encontrado", 404))
         ELSE Success(200, "Registros retornados com sucesso", NoRow, historicos)
    /\ UNCHANGED <<table, ctx, chain, created>>

\* buscarAtivos: query().where('ativo', true), the empty-result exception, 200.
BuscarAtivos(e, fault) ==
    LET historicos == QueryAtivos(e)
    IN
    /\ Accept
    /\ response' =
         IF fault THEN Failure(StoreFailure)
         ELSE IF Cardinality(historicos) <= 0
         THEN Failure(CustomErrorException("Nenhum registro encontrado", 404))
         ELSE Success(200, "Registros retornados com sucesso", NoRow, historicos)
    /\ UNCHANGED <<table, ctx, chain, created>>

\* As BuscarPorId, with first() in place of the lookup by identifier.
BuscarPorIdFirst(e, id, fault) ==
    /\ Accept
    /\ IF fault
       THEN response' = Failure(StoreFailure)
       ELSE IF table[e] = {}
       THEN response' = Failure(RowNotFound)
       ELSE \E historico \in table[e] :
                response' = Success(200, "Registro retornado com sucesso", historico, NoList)
    /\ UNCHANGED <<table, ctx, chain, created>>

\* buscarPorId: findOrFail(params.id), 200.
BuscarPorId(e, id, fault) ==
    /\ Accept
    /\ IF fault
       THEN response' = Failure(StoreFailure)
       ELSE IF Find(e, id) = {}
       THEN response' = Failure(RowNotFound)
       ELSE \E historico \in Find(e, id) :
                response' = Success(200, "Registro retornado com sucesso",
                                              historico, NoList)
    /\ UNCHANGED <<table, ctx, chain, created>>

-----------------------------------------------------------------------------
(* The claims.                                                               *)

\* The row of entity e with identifier id, in a table.
RowOf(rows, id) == {r \in rows : r.id = id}

\* C1: an atualizar of an existing record with a body that passes validation
\* (the store answering) responds 200, status true, "Registro atualizado com
\* sucesso", and leaves the stored record with the foreign key and the document
\* of the body, ativo and createdBy as they were, and updatedBy the acting
\* user's name, or null without a user.
C1_AtualizarReplacesFields ==
    [][\A s \in Slots :
         (AtualizarSave(s, FALSE) /\ ValidBody(ctx[s].e, ctx[s].body)) =>
             LET r == ctx[s] IN
             /\ response'.code = 200
             /\ response'.status = TRUE
             /\ response'.message = "Registro atualizado com sucesso"
             /\ \A old \in RowOf(table[r.e], r.id) : \A new \in RowOf(table'[r.e], r.id) :
                    /\ new[FkField(r.e)] = r.body[FkField(r.e)]
                    /\ new.documento = r.body.documento
                    /\ new.ativo = old.ativo
                    /\ new.createdBy = old.createdBy
                    /\ new.updatedBy = Nullish(r.user, Null)]_vars

\* C2: a cadastrar with a body that passes validation (the store answering) adds
\* exactly one record to its table and no other, and responds 201, status true,
\* "Registro cadastrado com sucesso!", with data the new record: the foreign key
\* and the document of the body, ativo true, createdBy the acting user's name,
\* absent (undefined) without a user.
C2_CadastrarAddsOneRecord ==
    [][\A e \in Entities : \A body \in Bodies(e), user \in Users :
         (Cadastrar(e, body, user, FALSE) /\ ValidBody(e, body)) =>
             /\ response'.code = 201
             /\ response'.status = TRUE
             /\ response'.message = "Registro cadastrado com sucesso!"
             /\ response'.data \notin table[e]
             /\ table'[e] = table[e] \cup {response'.data}
             /\ \A o \in Entities \ {e} : table'[o] = table[o]
             /\ response'.data[FkField(e)] = body[FkField(e)]
             /\ response'.data.documento = body.documento
             /\ response'.data.ativo = TRUE
             /\ response'.data.createdBy = user]_vars

\* A second record was created, by a request without a user.
C2_Witness ==
    /\ response.code = 201
    /\ response.data.createdBy = Undefined
    /\ response.data.documento = "xyz"
    /\ \E e \in Entities : response.data \in table[e] /\ Cardinality(table[e]) = 2

\* C3: after two toggles of a record made one after the other, with no other
\* mutating request on the record during or between them, ativo has the value
\* it had before the first of the two.
C3_ToggleTwiceRestores ==
    \A k \in Keys :
        chain[k].n = 2 => \A r \in RowOf(table[k[1]], k[2]) : r.ativo = chain[k].orig

\* Two toggles in a row of a record that was inactive before them.
C3_Witness ==
    \E k \in Keys :
        /\ chain[k].n = 2
        /\ chain[k].orig = FALSE
        /\ RowOf(table[k[1]], k[2]) # {}

\* C4: a toggle (the store answering) responds 200, status true, with ativo the
\* negation of the value it looked up, updatedBy the acting user's name, or null
\* without a user, and the message of the value after the flip: "ativado" when
\* the record is now active, "inativado" when it is now inactive.  Made with no
\* other mutating request on the record in flight, it leaves the stored record
\* negated and stamped; a toggle that follows a toggle of an active record
\* answers "ativado".
C4_ToggleNegatesAndReports ==
    [][\A s \in Slots :
         AtivarSave(s, FALSE) =>
             LET r == ctx[s]
                 before == r.historico.original.ativo
             IN
             /\ response'.code = 200
             /\ response'.status = TRUE
             /\ response'.data.ativo = ~before
             /\ response'.data.updatedBy = Nullish(r.user, Null)
             /\ response'.data.updatedBy = (IF r.user \in Users \ {Undefined}
                                            THEN r.user ELSE Null)
             /\ response'.message = (IF response'.data.ativo
                                     THEN "Registro ativado com sucesso"
                                     ELSE "Registro inativado com sucesso")
             /\ before = TRUE => response'.message = "Registro inativado com sucesso"
             /\ \A new \in RowOf(table'[r.e], r.id) : new.ativo = response'.data.ativo
             /\ r.iso =>
                  /\ \A old \in RowOf(table[r.e], r.id) : \A new \in RowOf(table'[r.e], r.id) :
                         /\ new.ativo = ~old.ativo
                         /\ new.updatedBy = Nullish(r.user, Null)
                  /\ (chain[<<r.e, r.id>>].n >= 1 /\ chain[<<r.e, r.id>>].last = TRUE)
                         => response'.message = "Registro ativado com sucesso"]_vars

\* The second toggle of an active record, made without a user: "ativado".
C4_Witness ==
    /\ response.message = "Registro ativado com sucesso"
    /\ response.data.updatedBy = Null
    /\ \E k \in Keys : chain[k].n = 2 /\ chain[k].orig = TRUE
                       /\ response.data \in table[k[1]]

\* C5: buscarAtivos on a table with an active record (the store answering)
\* responds 200 with exactly the records of the entity whose ativo is true, and
\* buscarTodos on a table with a record responds 200 with every record of the
\* entity.
C5_ListsAreExact ==
    [][\A e \in Entities :
         /\ (BuscarAtivos(e, FALSE) /\ \E r \in table[e] : r.ativo) =>
                /\ response'.code = 200
                /\ response'.status = TRUE
                /\ \A r \in table[e] : r \in response'.list <=> r.ativo
                /\ response'.list \subseteq table[e]
         /\ (BuscarTodos(e, FALSE) /\ table[e] # {}) =>
                /\ response'.code = 200
                /\ response'.status = TRUE
                /\ response'.list = table[e]]_vars

\* A list of one record, from a table holding an active and an inactive one.
C5_Witness ==
    /\ response.message = "Registros retornados com sucesso"
    /\ Cardinality(response.list) = 1
    /\ \E e \in Entities :
           /\ Cardinality(table[e]) = 2
           /\ response.list \subseteq table[e]
           /\ \A r \in table[e] : r \in response.list <=> r.ativo

\* C6: every response that carries a caught failure has code 500 and status
\* false, whatever the failure, the 404 of the empty-result exception included;
\* status false never goes with 200 or 201, nor status true with 500; and
\* buscarTodos on an empty table, as buscarAtivos on a table without an active
\* record, answers 500 with "Nenhum registro encontrado".
C6_EnvelopeCodes ==
    response # NoResponse =>
        /\ response.error # NoError => (response.code = 500 /\ response.status = FALSE)
        /\ response.status = FALSE => response.code = 500
        /\ response.status = TRUE => response.code \in {200, 201}
        /\ response.code # 404

C6_EmptyResultIs500 ==
    \A e \in Entities :
        /\ (BuscarTodos(e, FALSE) /\ table[e] = {}) =>
               /\ response'.code = 500
               /\ response'.status = FALSE
               /\ response'.message = "Nenhum registro encontrado"
        /\ (BuscarAtivos(e, FALSE) /\ ~\E r \in table[e] : r.ativo) =>
               /\ response'.code = 500
               /\ response'.status = FALSE
               /\ response'.message = "Nenhum registro encontrado"

C6_FailuresAre500 == []C6_EnvelopeCodes /\ [][C6_EmptyResultIs500]_vars

\* buscarAtivos answered the 404-flagged exception under 500 although the
\* table holds a record.
C6_Witness ==
    /\ response.error = CustomErrorException("Nenhum registro encontrado", 404)
    /\ response.code = 500
    /\ \E e \in Entities : table[e] # {} /\ \A r \in table[e] : ~r.ativo

\* C7: buscarPorId (the store answering) with an identifier no stored record
\* has answers the not-found failure, status false; with the identifier of a
\* record that no update or toggle has run on since its create, it answers 200,
\* "Registro retornado com sucesso", with a record equal to the one the create
\* returned.
C7_GetByIdRoundTrip ==
    [][\A e \in Entities, id \in Ids :
         BuscarPorId(e, id, FALSE) =>
             /\ RowOf(table[e], id) = {} =>
                    /\ response'.status = FALSE
                    /\ response'.error.name = "E_ROW_NOT_FOUND"
             /\ (<<e, id>> \in Keys /\ created[<<e, id>>].intact) =>
                    /\ response'.code = 200
                    /\ response'.status = TRUE
                    /\ response'.message = "Registro retornado com sucesso"
                    /\ response'.data = created[<<e, id>>].data]_vars

\* The second record of a table, created without a user, read back untouched.
C7_Witness ==
    /\ response.message = "Registro retornado com sucesso"
    /\ response.data.id = 2
    /\ response.data.createdBy = Undefined
    /\ \E k \in Keys : created[k].intact /\ created[k].data = response.data

\* C8: ativo of a stored record changes only in the saving step of a toggle of
\* that record, and createdBy of a stored record never changes: it is the value
\* its create stamped.
C8_StepKeepsAudit ==
    \A e \in Entities : \A old \in table[e] : \A new \in RowOf(table'[e], old.id) :
        /\ new.createdBy = old.createdBy
        /\ new.ativo # old.ativo =>
               \E s \in Slots : /\ ctx[s].op = "ativar"
                                /\ ctx[s].e = e
                                /\ ctx[s].id = old.id
                                /\ \E fault \in BOOLEAN : AtivarSave(s, fault)

C8_CreatedByAsStamped ==
    \A k \in Keys :
        created[k].data # NoRow =>
            \A r \in RowOf(table[k[1]], k[2]) : r.createdBy = created[k].data.createdBy

C8_OnlyToggleFlipsAtivo == []C8_CreatedByAsStamped /\ [][C8_StepKeepsAudit]_vars

\* A record created without a user, inactivated by Ana, then the target of an
\* update.
C8_Witness ==
    /\ response.error = SaveIsNotAFunction
    /\ \E e \in Entities : \E r \in table[e] :
           /\ r.ativo = FALSE
           /\ r.createdBy = Undefined
           /\ r.updatedBy = "Ana"
           /\ created[<<e, r.id>>].intact = FALSE

\* C9: a stored record stays stored under its identifier in every later state,
\* no two records of a table share an identifier, and a record is active or
\* inactive and nothing else.
C9_IdsUnique ==
    \A e \in Entities :
        /\ \A r1, r2 \in table[e] : r1.id = r2.id => r1 = r2
        /\ \A r \in table[e] : r.ativo \in BOOLEAN /\ r.id \in 1..Cardinality(table[e])

C9_StepKeepsRecords ==
    \A e \in Entities : \A old \in table[e] : RowOf(table'[e], old.id) # {}

C9_RecordsPersist == []C9_IdsUnique /\ [][C9_StepKeepsRecords]_vars

\* Two records of one table, one of them inactivated and activated again.
C9_Witness ==
    \E e \in Entities :
        /\ Cardinality(table[e]) = 2
        /\ chain[<<e, 1>>].n = 2
        /\ \E r \in table[e] : r.id = 1 /\ r.ativo

\* C10: a mutating request (an update with a valid body, or a toggle; the store
\* answering) that saves after another mutating request looked up the same
\* identifier while it was in flight is not rejected: its save succeeds, it
\* answers 200, and the stored fields it writes hold its values.
C10_InterleavedSavesSucceed ==
    [][\A s \in Slots :
         (/\ \/ AtualizarSave(s, FALSE) /\ ValidBody(ctx[s].e, ctx[s].body)
             \/ AtivarSave(s, FALSE)
          /\ ~ctx[s].iso) =>
             /\ response'.code = 200
             /\ response'.status = TRUE
             /\ \A new \in RowOf(table'[ctx[s].e], ctx[s].id) :
                    /\ new.ativo = response'.data.ativo
                    /\ new[FkField(ctx[s].e)] = response'.data[FkField(ctx[s].e)]
                    /\ new.documento = response'.data.documento]_vars

\* C10, for toggles alone: a toggle that saves after another request looked up
\* its record is answered 200, and the stored ativo is the negation of the value
\* it looked up, whatever the store held when it saved.
C10_InterleavedTogglesLastWriterWins ==
    [][\A s \in Slots :
         (AtivarSave(s, FALSE) /\ ~ctx[s].iso) =>
             /\ response'.code = 200
             /\ response'.status = TRUE
             /\ \A new \in RowOf(table'[ctx[s].e], ctx[s].id) :
                    new.ativo = ~ctx[s].historico.original.ativo]_vars

\* Two toggles of an active record both looked up before either saved; one has
\* saved and the other, holding the value it looked up, is about to write the
\* same value: the record ends flipped once.
C10_FlippedOnce ==
    \E s \in Slots :
        /\ ctx[s].op = "ativar"
        /\ ~ctx[s].iso
        /\ ctx[s].historico.original.ativo = TRUE
        /\ response.message = "Registro inativado com sucesso"
        /\ \E r \in RowOf(table[ctx[s].e], ctx[s].id) : r = response.data /\ ~r.ativo

\* C11: a step that sends a failure envelope (status false) leaves every table
\* as it was: a failed cadastrar adds no record, and an atualizar or ativar that
\* fails at its lookup, at its validation or at its save changes no field of any
\* record.  When no other mutating request was in flight on the record, the
\* record is still the one the failed request looked up.
C11_StepFailureKeepsStore ==
    /\ response'.status = FALSE => table' = table
    /\ \A s \in Slots, fault \in BOOLEAN :
           (/\ AtualizarSave(s, fault) \/ AtivarSave(s, fault)
            /\ response'.status = FALSE) =>
               /\ table' = table
               /\ ctx[s].iso =>
                      RowOf(table'[ctx[s].e], ctx[s].id) = {ctx[s].historico.original}

C11_FailureKeepsStore == [][C11_StepFailureKeepsStore]_vars

\* An update failed after its lookup; the record is the one its create returned.
C11_Witness ==
    /\ response.status = FALSE
    /\ response.error \in {SaveIsNotAFunction, ValidationException}
    /\ \E k \in Keys :
           /\ created[k].data \in table[k[1]]
           /\ ~created[k].intact
           /\ chain[k].n = 0

-----------------------------------------------------------------------------
Next ==
    \/ \E e \in Entities : \E body \in Bodies(e), user \in Users, fault \in BOOLEAN :
           Cadastrar(e, body, user, fault)
    \/ \E s \in Slots, e \in Entities, id \in Ids : \E body \in Bodies(e), user \in Users,
          fault \in BOOLEAN :
           AtualizarFind(s, e, id, body, user, fault)
    \/ \E s \in Slots, fault \in BOOLEAN : AtualizarSave(s, fault)
    \/ \E s \in Slots, e \in Entities, id \in Ids, user \in Users, fault \in BOOLEAN :
           AtivarFind(s, e, id, user, fault)
    \/ \E s \in Slots, fault \in BOOLEAN : AtivarSave(s, fault)
    \/ \E e \in Entities, fault \in BOOLEAN : BuscarTodos(e, fault)
    \/ \E e \in Entities, fault \in BOOLEAN : BuscarAtivos(e, fault)
    \/ \E e \in Entities, id \in Ids, fault \in BOOLEAN : BuscarPorId(e, id, fault)

Spec == Init /\ [][Next]_vars
====
